---- MODULE Spec2Model ----
(***************************************************************************)
(* Country-domination hangman (src/script.js, the local-storage variant).  *)
(* The state is the gameState object, the two localStorage entries, the    *)
(* modal, the continent cards that carry a click handler, the outstanding  *)
(* fetches and the pending "back to the map" timers of failed loads.       *)
(* Strings that the code inspects character by character (country names,   *)
(* target words) are sequences of one-character tokens.                    *)
(***************************************************************************)
EXTENDS Integers, Sequences, FiniteSets, TLC

\* ------------------------------------------------------------------------
\* Bounds of the model
\* ------------------------------------------------------------------------
MaxSelections == 2    \* continent cards clicked in one session
MaxStoredKeys == 2    \* continent keys present in a stored status at session start
MaxNameLen == 4       \* characters of a raw country name given to cleanWord
MaxMessages == 4      \* showMessage calls in one run of SpecMessage
MaxRemoteSelections == 5  \* continent cards clicked in one run of SpecRemote

\* ------------------------------------------------------------------------
\* Program constants
\* ------------------------------------------------------------------------
CONTINENTS == <<"Africa", "Americas", "Asia", "Europe", "Oceania">>
ContinentSet == {CONTINENTS[i] : i \in 1..Len(CONTINENTS)}
MAX_TROOPS == 3
MinPopulation == 100000

\* ------------------------------------------------------------------------
\* Characters.  "A_acute"/"a_acute" stand for U+00C1/U+00E1 and "acute"
\* for the combining mark U+0301 that NFD splits off.
\* ------------------------------------------------------------------------
WhiteSpace   == {" ", "\t", "\n"}
LineTerminators == {"\n"}
CombiningMarks  == {"acute"}

toUpperCase(ch) ==
    CASE ch = "a" -> "A"
      [] ch = "b" -> "B"
      [] ch = "x" -> "X"
      [] ch = "y" -> "Y"
      [] ch = "z" -> "Z"
      [] ch = "a_acute" -> "A_acute"
      [] OTHER -> ch

RECURSIVE MapUpper(_)
MapUpper(s) == IF s = <<>> THEN <<>> ELSE <<toUpperCase(Head(s))>> \o MapUpper(Tail(s))

\* index of the first non-whitespace character at or after i (Len(s)+1 if none)
RECURSIVE SkipSpace(_, _)
SkipSpace(s, i) == IF i <= Len(s) /\ s[i] \in WhiteSpace THEN SkipSpace(s, i + 1) ELSE i

\* index of the ")" closing a "(" at k under /\(.*?\)/ : the first ")" after k
\* with no line terminator in between, 0 if there is none
RECURSIVE FindClose(_, _)
FindClose(s, m) ==
    IF m > Len(s) THEN 0
    ELSE IF s[m] \in LineTerminators THEN 0
    ELSE IF s[m] = ")" THEN m
    ELSE FindClose(s, m + 1)

\* end of the match of /\s*\(.*?\)\s*/ that starts at i, 0 if none starts there
ParenMatchEnd(s, i) ==
    LET k == SkipSpace(s, i) IN
    IF k > Len(s) \/ s[k] # "(" THEN 0
    ELSE LET m == FindClose(s, k + 1) IN
         IF m = 0 THEN 0 ELSE SkipSpace(s, m + 1) - 1

\* .replace(/\s*\(.*?\)\s*/g, '')
RECURSIVE RemoveParens(_, _)
RemoveParens(s, i) ==
    IF i > Len(s) THEN <<>>
    ELSE LET e == ParenMatchEnd(s, i) IN
         IF e = 0 THEN <<s[i]>> \o RemoveParens(s, i + 1)
         ELSE RemoveParens(s, e + 1)

\* .normalize("NFD")
Decompose(ch) == IF ch = "A_acute" THEN <<"A", "acute">>
                 ELSE IF ch = "a_acute" THEN <<"a", "acute">>
                 ELSE <<ch>>

RECURSIVE NFD(_)
NFD(s) == IF s = <<>> THEN <<>> ELSE Decompose(Head(s)) \o NFD(Tail(s))

RECURSIVE Filter(_, _)
Filter(s, keep) ==
    IF s = <<>> THEN <<>>
    ELSE (IF Head(s) \in keep THEN <<Head(s)>> ELSE <<>>) \o Filter(Tail(s), keep)

RECURSIVE Remove(_, _)
Remove(s, drop) ==
    IF s = <<>> THEN <<>>
    ELSE (IF Head(s) \in drop THEN <<>> ELSE <<Head(s)>>) \o Remove(Tail(s), drop)

RECURSIVE TrimEnd(_)
TrimEnd(s) == IF s # <<>> /\ s[Len(s)] \in WhiteSpace
              THEN TrimEnd(SubSeq(s, 1, Len(s) - 1)) ELSE s

Trim(s) == LET k == SkipSpace(s, 1) IN TrimEnd(SubSeq(s, k, Len(s)))

AllLetters == {"A","B","C","D","E","F","G","H","I","J","K","L","M",
               "N","O","P","Q","R","S","T","U","V","W","X","Y","Z"}

cleanWord(name) ==
    Trim(Filter(Remove(NFD(RemoveParens(MapUpper(name), 1)), CombiningMarks),
                AllLetters \cup WhiteSpace))

\* cleanWord(name) + area: both parts are kept, the concatenation of a letter
\* string and a number is injective
getCountryKey(c) == <<cleanWord(c.name), c.area>>


\* ------------------------------------------------------------------------
\* Values: JSON values of continentStatus and the localStorage items
\* ------------------------------------------------------------------------
Undefined       == [kind |-> "undefined", val |-> "", countries |-> <<>>]
Str(v)          == [kind |-> "string", val |-> v, countries |-> <<>>]
Obj(st, names)  == [kind |-> "object", val |-> st, countries |-> names]

JsonNull        == [kind |-> "null", val |-> "", countries |-> <<>>]
Num(digits)     == [kind |-> "number", val |-> digits, countries |-> <<>>]

\* JavaScript truthiness of such a value
Truthy(v) == \/ v.kind = "object"
             \/ v.kind = "string" /\ v.val # ""
             \/ v.kind = "number" /\ v.val # "0"

NoItem          == [kind |-> "none", n |-> 0]     \* getItem() returns null
TextItem        == [kind |-> "text", n |-> 0]     \* a non-numeric string
IntItem(n)      == [kind |-> "int", n |-> n]      \* n.toString()

NoStatusItem    == [kind |-> "none", map |-> [c \in ContinentSet |-> Undefined]]
CorruptItem     == [kind |-> "corrupt", map |-> [c \in ContinentSet |-> Undefined]]
JsonItem(m)     == [kind |-> "json", map |-> m]

\* parseInt(storedStreak) || 0
parseIntOr0(item) == IF item.kind = "int" THEN item.n ELSE 0

\* ------------------------------------------------------------------------
\* The country data source: what GET <API_URL>/<region> can answer
\* ------------------------------------------------------------------------
Raw(nm, fl, pop, ar) == [name |-> nm, flag |-> fl, population |-> pop, area |-> ar]

Ab      == <<"A", "b">>                                      \* cleans to AB
BaParen == <<"B", " ", "a_acute", " ", "(", "x", ")">>     \* cleans to B A
Digits  == <<"4", "2">>                                      \* cleans to the empty word
Xy      == <<"X", "y">>

AfricaData   == << Raw(Ab, "ab.svg", 200000, 1),
                   Raw(Xy, "xy.svg", 100000, 2),
                   Raw(BaParen, "ba.svg", 300000, 3) >>
AmericasData == << Raw(Digits, "d.svg", 500000, 4) >>
EuropeData   == << Raw(Xy, "", 900000, 5) >>

HttpError    == [ok |-> FALSE, data |-> <<>>]
Ok(d)        == [ok |-> TRUE, data |-> d]

\* the answers a request for continent c can get: an HTTP error, the region's
\* list, or (the result set is not stable across calls) a shorter list
Responses(c) ==
    {HttpError} \cup
    CASE c = "Africa"   -> {Ok(AfricaData), Ok(SubSeq(AfricaData, 1, 2))}
      [] c = "Americas" -> {Ok(AmericasData)}
      [] c = "Europe"   -> {Ok(EuropeData)}
      [] OTHER          -> {Ok(<<>>)}

\* Math.random() as a numerator over RandomDenominator
RandomDenominator == 2
Random == 0..(RandomDenominator - 1)

\* the letters guessLetter() is called with
Keys == {"A", "B", "X", "Y", "z"}

\* ------------------------------------------------------------------------
\* What localStorage can hold when a session starts
\* ------------------------------------------------------------------------
StoredProgress ==
    [c \in ContinentSet |->
        CASE c = "Africa"   -> Obj("in-progress", <<Ab>>)
          [] c = "Americas" -> Undefined
          [] OTHER          -> Str("dominated")]

InitialStorage ==
    { [bestStreak |-> NoItem,     continentStatus |-> NoStatusItem],
      [bestStreak |-> TextItem,   continentStatus |-> CorruptItem],
      [bestStreak |-> IntItem(1), continentStatus |-> JsonItem(StoredProgress)] }

\* ------------------------------------------------------------------------
\* State
\* ------------------------------------------------------------------------
VARIABLES
    gameState,      \* the gameState object
    aliased,        \* continentStatus[currentContinent].countries is the very
                    \* array gameState.dominated
    localStorage,   \* the two stored items
    modal,          \* the modal while it is shown
    cards,          \* continents whose card carries a click handler
    errorTimers,    \* pending setTimeout(() => showView('continentSelect'))
    signal,         \* what the last step signalled: a modal title, "roundStarted",
                    \* "loadError", "ignored" (guessLetter returned at a guard) or "none"
    pending,        \* outstanding fetches per continent
    selections,     \* continent cards clicked so far
    messageArea,    \* the text of the message area and the showMessage call it is from
    messageTimers   \* the pending timers of showMessage, oldest first, and the
                    \* number of showMessage calls so far

vars == <<gameState, aliased, localStorage, modal, cards, errorTimers, signal, pending,
          selections, messageArea, messageTimers>>

\* The message area is display only.  Spec, SpecStart and SpecClean do not
\* follow it; SpecMessage does.
NoMessage == [text |-> "", call |-> 0]
NoMessageTimers == [queue |-> <<>>, calls |-> 0]

NoCountry == [name |-> <<>>, flag |-> "", key |-> <<<<>>, 0>>]
NoBody    == [country |-> <<>>, continent |-> "", streak |-> 0]
NoModal   == [visible |-> FALSE, title |-> "", body |-> NoBody, action |-> ""]

InitialGameState ==
    [ currentView     |-> "menu",
      continentStatus |-> [c \in ContinentSet |-> Undefined],
      currentStreak   |-> 0,
      bestStreak      |-> 0,
      currentContinent |-> "",
      countries       |-> <<>>,
      dominated       |-> <<>>,
      currentCountry  |-> NoCountry,
      targetWord      |-> <<>>,
      guessedLetters  |-> {},
      troops          |-> MAX_TROOPS,
      isGameActive    |-> FALSE ]

\* The handlers are functions of the whole system s = [gs, aliased, ls, modal,
\* cards, timers, signal]; an action applies one and commits the result.
Sys == [gs |-> gameState, aliased |-> aliased, ls |-> localStorage, modal |-> modal,
        cards |-> cards, timers |-> errorTimers, signal |-> "none"]

Commit(s) ==
    /\ gameState' = s.gs
    /\ aliased' = s.aliased
    /\ localStorage' = s.ls
    /\ modal' = s.modal
    /\ cards' = s.cards
    /\ errorTimers' = s.timers
    /\ signal' = s.signal


\* ------------------------------------------------------------------------
\* Handlers, as functions of the system
\* ------------------------------------------------------------------------
showView(s, viewId) == [s EXCEPT !.gs.currentView = viewId]

\* mutant: only the continent status is written
saveGameStateToStorage_statusOnly(s) ==
    [s EXCEPT !.ls.continentStatus = JsonItem(s.gs.continentStatus)]

\* localStorage.setItem of both items; JSON.stringify copies the status object
saveGameStateToStorage(s) ==
    [s EXCEPT !.ls = [bestStreak |-> IntItem(s.gs.bestStreak),
                      continentStatus |-> JsonItem(s.gs.continentStatus)]]

loadGameStateFromStorage(s) ==
    LET storedStreak == s.ls.bestStreak
        storedStatus == s.ls.continentStatus
        s1 == IF storedStreak.kind # "none"
              THEN [s EXCEPT !.gs.bestStreak = parseIntOr0(storedStreak)]
              ELSE s
    IN  IF storedStatus.kind = "json"
        THEN [s1 EXCEPT !.gs.continentStatus =
                 [c \in ContinentSet |->
                     IF Truthy(storedStatus.map[c]) THEN storedStatus.map[c] ELSE @[c]]]
        ELSE s1

\* mutant: the best streak follows the current one without the comparison
renderStreak_overwrite(s) ==
    saveGameStateToStorage([s EXCEPT !.gs.bestStreak = s.gs.currentStreak])

renderStreak(s) ==
    IF s.gs.currentStreak > s.gs.bestStreak
    THEN saveGameStateToStorage([s EXCEPT !.gs.bestStreak = s.gs.currentStreak])
    ELSE s

\* the cards of the continents that are not 'dominated' get a click handler
renderContinentSelect(s) ==
    [s EXCEPT !.cards = {c \in ContinentSet : s.gs.continentStatus[c] # Str("dominated")}]

handleModal(s, title, body, action) ==
    [s EXCEPT !.modal = [visible |-> TRUE, title |-> title, body |-> body, action |-> action],
              !.signal = title]

\* the status loop of initializeAppUI for one continent
normalStatus(v) ==
    IF ~Truthy(v) \/ v = Str("available") THEN Str("available")
    ELSE IF v.kind = "object" THEN (IF v.val # "" THEN Str(v.val) ELSE Str("available"))
    ELSE v

initializeAppUI(s) ==
    LET s1 == loadGameStateFromStorage(s)
        s2 == [s1 EXCEPT !.gs.continentStatus = [c \in ContinentSet |-> normalStatus(@[c])],
                         !.aliased = FALSE]
    IN  showView(s2, "menu")

\* mutant: the final status is not saved
handleContinentWin_noSave(s) ==
    LET s2 == [s EXCEPT !.gs.continentStatus[s.gs.currentContinent] = Str("dominated"),
                        !.aliased = FALSE]
        allDominated == \A c \in ContinentSet : s2.gs.continentStatus[c] = Str("dominated")
    IN  IF allDominated
        THEN handleModal(s2, "VICTORIA GLOBAL", NoBody, "resetCampaign")
        ELSE handleModal(s2, "Continente Conquistado",
                         [NoBody EXCEPT !.continent = s.gs.currentContinent], "backToMap")

handleContinentWin(s) ==
    LET s1 == [s EXCEPT !.gs.continentStatus[s.gs.currentContinent] = Str("dominated"),
                        !.aliased = FALSE]
        s2 == saveGameStateToStorage(s1)
        allDominated == \A c \in ContinentSet : s2.gs.continentStatus[c] = Str("dominated")
    IN  IF allDominated
        THEN handleModal(s2, "VICTORIA GLOBAL", NoBody, "resetCampaign")
        ELSE handleModal(s2, "Continente Conquistado",
                         [NoBody EXCEPT !.continent = s.gs.currentContinent], "backToMap")

\* mutant: the isDominated filter is missing
availableCountries_all(countries) == [i \in 1..Len(countries) |-> i]

\* indices of the records that are not dominated, in list order
availableCountries(countries) ==
    LET RECURSIVE From(_)
        From(i) == IF i > Len(countries) THEN <<>>
                   ELSE (IF countries[i].isDominated THEN <<>> ELSE <<i>>) \o From(i + 1)
    IN  From(1)

\* Math.floor(Math.random() * length), as a 1-based position
randomIndex(rnd, length) == ((rnd * length) \div RandomDenominator) + 1

\* mutant: the troops are not reset
newRound_keepTroops(s, rnd) ==
    LET avail == availableCountries(s.gs.countries) IN
    IF Len(avail) = 0 THEN handleContinentWin(s)
    ELSE LET c  == s.gs.countries[avail[randomIndex(rnd, Len(avail))]]
             s1 == [s EXCEPT !.gs.currentCountry = [name |-> c.name, flag |-> c.flag, key |-> c.key],
                             !.gs.targetWord = cleanWord(c.name),
                             !.gs.guessedLetters = {},
                             !.gs.isGameActive = TRUE,
                             !.signal = "roundStarted"]
         IN  renderStreak(s1)

newRound(s, rnd) ==
    LET avail == availableCountries(s.gs.countries) IN
    IF Len(avail) = 0 THEN handleContinentWin(s)
    ELSE LET c  == s.gs.countries[avail[randomIndex(rnd, Len(avail))]]
             s1 == [s EXCEPT !.gs.currentCountry = [name |-> c.name, flag |-> c.flag, key |-> c.key],
                             !.gs.targetWord = cleanWord(c.name),
                             !.gs.guessedLetters = {},
                             !.gs.troops = MAX_TROOPS,
                             !.gs.isGameActive = TRUE,
                             !.signal = "roundStarted"]
         IN  renderStreak(s1)

\* the distinct non-whitespace characters of the target word
wordLetters(targetWord) == {targetWord[i] : i \in 1..Len(targetWord)} \ WhiteSpace

\* position of the first record with the key, 0 if none
findByKey(countries, key) ==
    LET hits == {i \in 1..Len(countries) : countries[i].key = key}
    IN  IF hits = {} THEN 0 ELSE CHOOSE i \in hits : \A j \in hits : i <= j

\* gameState.dominated.push(name): the array may also be the countries list of
\* the current continent's status object
pushDominated(s, name) ==
    LET s1 == [s EXCEPT !.gs.dominated = Append(@, name)] IN
    IF s.aliased
    THEN [s1 EXCEPT !.gs.continentStatus[s.gs.currentContinent].countries = Append(@, name)]
    ELSE s1

markDominated(s) ==
    LET i == findByKey(s.gs.countries, s.gs.currentCountry.key) IN
    IF i = 0 THEN s
    ELSE pushDominated([s EXCEPT !.gs.countries[i].isDominated = TRUE], s.gs.countries[i].name)

\* mutant: the loss needs a negative troop count
troopsDepleted_negative(troops) == troops < 0

\* gameState.troops <= 0
troopsDepleted(troops) == troops <= 0

\* mutant: the loss marks the country and saves, as the win does
checkGameStatus_lossMarks(s) ==
    IF ~s.gs.isGameActive THEN s
    ELSE IF wordLetters(s.gs.targetWord) \subseteq s.gs.guessedLetters
    THEN LET s1 == [s EXCEPT !.gs.isGameActive = FALSE,
                             !.gs.currentStreak = @ + 1]
             s2 == renderStreak(s1)
             s3 == markDominated(s2)
             s4 == [s3 EXCEPT !.gs.continentStatus[s3.gs.currentContinent] =
                                  Obj("in-progress", s3.gs.dominated),
                              !.aliased = TRUE]
             s5 == saveGameStateToStorage(s4)
         IN  handleModal(s5, "Pais Dominado",
                         [NoBody EXCEPT !.country = s5.gs.currentCountry.name,
                                        !.streak = s5.gs.currentStreak],
                         "newRound")
    ELSE IF troopsDepleted(s.gs.troops)
    THEN LET s3 == markDominated([s EXCEPT !.gs.isGameActive = FALSE])
             s5 == saveGameStateToStorage(s3)
         IN  handleModal(s5, "Derrota de Tropas",
                         [NoBody EXCEPT !.country = s.gs.currentCountry.name], "newRound")
    ELSE s

checkGameStatus(s) ==
    IF ~s.gs.isGameActive THEN s
    ELSE IF wordLetters(s.gs.targetWord) \subseteq s.gs.guessedLetters
    THEN LET s1 == [s EXCEPT !.gs.isGameActive = FALSE,
                             !.gs.currentStreak = @ + 1]
             s2 == renderStreak(s1)
             s3 == markDominated(s2)
             s4 == [s3 EXCEPT !.gs.continentStatus[s3.gs.currentContinent] =
                                  Obj("in-progress", s3.gs.dominated),
                              !.aliased = TRUE]
             s5 == saveGameStateToStorage(s4)
         IN  handleModal(s5, "Pais Dominado",
                         [NoBody EXCEPT !.country = s5.gs.currentCountry.name,
                                        !.streak = s5.gs.currentStreak],
                         "newRound")
    ELSE IF troopsDepleted(s.gs.troops)
    THEN handleModal([s EXCEPT !.gs.isGameActive = FALSE], "Derrota de Tropas",
                     [NoBody EXCEPT !.country = s.gs.currentCountry.name], "newRound")
    ELSE s

\* mutant: the guessedLetters.has() return is missing
guessLetter_noDuplicateCheck(s, letter) ==
    IF ~s.gs.isGameActive THEN [s EXCEPT !.signal = "ignored"]
    ELSE LET upperLetter == toUpperCase(letter)
             s1 == [s EXCEPT !.gs.guessedLetters = @ \cup {upperLetter}]
             s2 == IF \E i \in 1..Len(s1.gs.targetWord) : s1.gs.targetWord[i] = upperLetter
                   THEN s1
                   ELSE renderStreak([s1 EXCEPT !.gs.troops = @ - 1,
                                                !.gs.currentStreak = 0])
         IN  checkGameStatus(s2)

\* mutant: the isGameActive return is missing
guessLetter_noActiveCheck(s, letter) ==
    LET upperLetter == toUpperCase(letter) IN
    IF upperLetter \in s.gs.guessedLetters THEN [s EXCEPT !.signal = "ignored"]
    ELSE LET s1 == [s EXCEPT !.gs.guessedLetters = @ \cup {upperLetter}]
             s2 == IF \E i \in 1..Len(s1.gs.targetWord) : s1.gs.targetWord[i] = upperLetter
                   THEN s1
                   ELSE renderStreak([s1 EXCEPT !.gs.troops = @ - 1,
                                                !.gs.currentStreak = 0])
         IN  checkGameStatus(s2)

guessLetter(s, letter) ==
    IF ~s.gs.isGameActive THEN [s EXCEPT !.signal = "ignored"]
    ELSE LET upperLetter == toUpperCase(letter) IN
         IF upperLetter \in s.gs.guessedLetters THEN [s EXCEPT !.signal = "ignored"]
         ELSE LET s1 == [s EXCEPT !.gs.guessedLetters = @ \cup {upperLetter}]
                  s2 == IF \E i \in 1..Len(s1.gs.targetWord) : s1.gs.targetWord[i] = upperLetter
                        THEN s1
                        ELSE renderStreak([s1 EXCEPT !.gs.troops = @ - 1,
                                                     !.gs.currentStreak = 0])
              IN  checkGameStatus(s2)


\* data.filter(...).map(...): the records of gameState.countries
RECURSIVE toCountries(_)
toCountries(data) ==
    IF data = <<>> THEN <<>>
    ELSE LET c == Head(data) IN
         (IF c.name # <<>> /\ c.flag # "" /\ c.population > MinPopulation
          THEN <<[name |-> c.name, flag |-> c.flag, key |-> getCountryKey(c),
                  isDominated |-> FALSE]>>
          ELSE <<>>) \o toCountries(Tail(data))

Includes(list, x) == \E i \in 1..Len(list) : list[i] = x

\* mutant: the forEach marks no record
remark_noMark(s, names, i) == s

\* the forEach that re-marks the countries named in the status object; the
\* push goes to the array gameState.dominated still refers to
RECURSIVE remark(_, _, _)
remark(s, names, i) ==
    IF i > Len(s.gs.countries) THEN s
    ELSE IF Includes(names, s.gs.countries[i].name)
    THEN remark(pushDominated([s EXCEPT !.gs.countries[i].isDominated = TRUE],
                              s.gs.countries[i].name), names, i + 1)
    ELSE remark(s, names, i + 1)

RECURSIVE dominatedNames(_)
dominatedNames(countries) ==
    IF countries = <<>> THEN <<>>
    ELSE (IF Head(countries).isDominated THEN <<Head(countries).name>> ELSE <<>>)
         \o dominatedNames(Tail(countries))

\* the catch block: showMessage and the timer that returns to the map
loadFailed(s) == [s EXCEPT !.timers = @ + 1, !.signal = "loadError"]

\* loadContinent from the point where the fetch has answered
loadContinent(s, continent, response, rnd) ==
    IF ~response.ok THEN loadFailed(s)
    ELSE LET s1 == [s EXCEPT !.gs.countries = toCountries(response.data)] IN
         IF Len(s1.gs.countries) = 0 THEN loadFailed(s1)
         ELSE LET continentStatus == s1.gs.continentStatus[continent]
                  s2 == IF continentStatus.kind = "object"
                        THEN remark(s1, continentStatus.countries, 1)
                        ELSE s1
                  s3 == [s2 EXCEPT !.gs.currentContinent = continent,
                                   !.gs.dominated = dominatedNames(s2.gs.countries),
                                   !.aliased = FALSE]
              IN  newRound(s3, rnd)

\* ------------------------------------------------------------------------
\* Initial state: window.onload has run initializeAppUI on some stored content
\* ------------------------------------------------------------------------
NoPending == [c \in ContinentSet |-> 0]

Boot(storage) ==
    initializeAppUI([gs |-> InitialGameState, aliased |-> FALSE, ls |-> storage,
                     modal |-> NoModal, cards |-> {}, timers |-> 0, signal |-> "none"])

Init ==
    \E storage \in InitialStorage :
        LET s == Boot(storage) IN
        /\ gameState = s.gs
        /\ aliased = s.aliased
        /\ localStorage = s.ls
        /\ modal = s.modal
        /\ cards = s.cards
        /\ errorTimers = s.timers
        /\ signal = s.signal
        /\ pending = NoPending
        /\ selections = 0
        /\ messageArea = NoMessage
        /\ messageTimers = NoMessageTimers

\* ------------------------------------------------------------------------
\* Actions.  A button is clickable while its view is shown and no modal
\* covers the page; fetch answers and timers are not bound to that.
\* ------------------------------------------------------------------------
Clickable(viewId) == gameState.currentView = viewId /\ ~modal.visible

StartButton ==
    /\ Clickable("menu")
    /\ Commit(showView(renderContinentSelect(Sys), "continentSelect"))
    /\ UNCHANGED <<pending, selections, messageArea, messageTimers>>

RankingButton ==
    /\ Clickable("menu")
    /\ Commit(showView(Sys, "ranking"))
    /\ UNCHANGED <<pending, selections, messageArea, messageTimers>>

BackToMenu ==
    /\ Clickable("continentSelect") \/ Clickable("ranking")
    /\ Commit(showView(Sys, "menu"))
    /\ UNCHANGED <<pending, selections, messageArea, messageTimers>>

BackToMapButton ==
    /\ Clickable("game")
    /\ Commit(showView(renderContinentSelect(
                [Sys EXCEPT !.gs.isGameActive = FALSE, !.gs.currentStreak = 0]),
              "continentSelect"))
    /\ UNCHANGED <<pending, selections, messageArea, messageTimers>>

\* a card click: startGame shows the game view and loadContinent sends the request
StartGame(continent) ==
    /\ Clickable("continentSelect")
    /\ continent \in cards
    /\ selections < MaxSelections
    /\ Commit(showView(Sys, "game"))
    /\ pending' = [pending EXCEPT ![continent] = @ + 1]
    /\ selections' = selections + 1
    /\ UNCHANGED <<messageArea, messageTimers>>

FetchAnswers(continent, response, rnd) ==
    /\ pending[continent] > 0
    /\ \E s \in {loadContinent(Sys, continent, response, rnd)} : Commit(s)
    /\ pending' = [pending EXCEPT ![continent] = @ - 1]
    /\ UNCHANGED <<selections, messageArea, messageTimers>>

ErrorTimerFires ==
    /\ errorTimers > 0
    /\ Commit(showView([Sys EXCEPT !.timers = @ - 1], "continentSelect"))
    /\ UNCHANGED <<pending, selections, messageArea, messageTimers>>

\* guessLetter is reached from the on-screen keys and from the keydown listener,
\* both in the game view; the call itself may be late or repeated
GuessLetter(letter) ==
    /\ gameState.currentView = "game"
    /\ \E s \in {guessLetter(Sys, letter)} : Commit(s)
    /\ UNCHANGED <<pending, selections, messageArea, messageTimers>>

\* mutant: the reset of the statuses is not saved before initializeAppUI
modalAction_resetNoSave(s, rnd) ==
    LET hidden == [s EXCEPT !.modal = NoModal] IN
    CASE s.modal.action = "newRound" -> newRound(hidden, rnd)
      [] s.modal.action = "resetCampaign" ->
            showView(initializeAppUI(
                [hidden EXCEPT !.gs.continentStatus = [c \in ContinentSet |-> Str("available")],
                               !.aliased = FALSE]), "menu")
      [] OTHER -> showView(renderContinentSelect(hidden), "continentSelect")

\* the modal button: hide the modal, run the action handleModal was given
modalAction(s, rnd) ==
    LET hidden == [s EXCEPT !.modal = NoModal] IN
    CASE s.modal.action = "newRound" -> newRound(hidden, rnd)
      [] s.modal.action = "resetCampaign" ->
            showView(initializeAppUI(saveGameStateToStorage(
                [hidden EXCEPT !.gs.continentStatus = [c \in ContinentSet |-> Str("available")],
                               !.aliased = FALSE])), "menu")
      [] OTHER -> showView(renderContinentSelect(hidden), "continentSelect")

ModalButton(rnd) ==
    /\ modal.visible
    /\ \E s \in {modalAction(Sys, rnd)} : Commit(s)
    /\ UNCHANGED <<pending, selections, messageArea, messageTimers>>

Next ==
    \/ StartButton
    \/ RankingButton
    \/ BackToMenu
    \/ BackToMapButton
    \/ \E c \in ContinentSet : StartGame(c)
    \/ \E c \in ContinentSet : \E r \in Responses(c) : \E rnd \in Random : FetchAnswers(c, r, rnd)
    \/ ErrorTimerFires
    \/ \E l \in Keys : GuessLetter(l)
    \/ \E rnd \in Random : ModalButton(rnd)

Spec == Init /\ [][Next]_vars


\* ------------------------------------------------------------------------
\* Vocabulary of the properties
\* ------------------------------------------------------------------------
WinTitle       == "Pais Dominado"
LossTitle      == "Derrota de Tropas"
ContinentTitle == "Continente Conquistado"
GlobalTitle    == "VICTORIA GLOBAL"

\* guessedLetters grows only in guessLetter, past both of its guards: a step
\* that adds a letter is an accepted guess, and Added is the letter
Added == gameState'.guessedLetters \ gameState.guessedLetters

AcceptedGuess ==
    /\ Added # {}
    /\ gameState.guessedLetters \subseteq gameState'.guessedLetters
    /\ gameState.isGameActive

IncorrectGuess == AcceptedGuess /\ Added \cap wordLetters(gameState.targetWord) = {}

WordComplete(gs) == wordLetters(gs.targetWord) \subseteq gs.guessedLetters

WrongGuesses(gs) == gs.guessedLetters \ wordLetters(gs.targetWord)

\* C1: a round is won iff every non-space character of targetWord is guessed:
\* the win is signalled exactly at the accepted guessLetter call that adds the
\* last missing letter of the word, the round ends there, and no round is
\* active while all the letters of its word are guessed.
C1_WinIffWordComplete ==
    /\ [](gameState.isGameActive => ~WordComplete(gameState))
    /\ [][ /\ (signal' = WinTitle) <=> (AcceptedGuess /\ WordComplete(gameState'))
           /\ (signal' = WinTitle)
              => /\ AcceptedGuess
                 /\ ~IncorrectGuess
                 /\ ~WordComplete(gameState)
                 /\ ~gameState'.isGameActive ]_vars

\* C2: a round is lost iff troops reaches 0 before the word is complete: the
\* loss is signalled exactly at the third incorrect accepted guess of a round
\* whose word is not complete, the round is then inactive with troops = 0 and
\* currentStreak = 0, and no loss is signalled while troops > 0.
C2_LossIffTroopsDepleted ==
    [][ /\ (signal' = LossTitle)
           <=> /\ IncorrectGuess
               /\ Cardinality(WrongGuesses(gameState')) = MAX_TROOPS
               /\ ~WordComplete(gameState')
        /\ (signal' = LossTitle)
           => /\ ~gameState'.isGameActive
              /\ gameState'.troops = 0
              /\ gameState'.currentStreak = 0 ]_vars

C2_Witness ==
    /\ signal = LossTitle
    /\ gameState.troops = 0
    /\ ~gameState.isGameActive
    /\ gameState.currentStreak = 0
    /\ Cardinality(WrongGuesses(gameState)) = MAX_TROOPS

\* C3: troops is always in 0..3, and it changes only by a round start (to 3)
\* or by exactly -1 on an incorrect accepted guess.
C3_TroopsRangeAndMonotone ==
    /\ [](gameState.troops \in 0..MAX_TROOPS)
    /\ [][ gameState'.troops # gameState.troops
           => \/ signal' = "roundStarted" /\ gameState'.troops = MAX_TROOPS
              \/ /\ gameState'.troops = gameState.troops - 1
                 /\ IncorrectGuess ]_vars

C3_Witness ==
    /\ gameState.isGameActive
    /\ gameState.troops = 1
    /\ Cardinality(WrongGuesses(gameState)) = 2

\* C4: guessLetter with a letter that is already in guessedLetters changes
\* nothing: gameState (letters, troops, streaks, isGameActive, dominated,
\* continentStatus), the stored data and the modal stay, nothing is signalled.
C4_DuplicateGuessIsNoOp ==
    [][ \A l \in Keys :
          (toUpperCase(l) \in gameState.guessedLetters /\ GuessLetter(l))
          => /\ gameState' = gameState
             /\ localStorage' = localStorage
             /\ modal' = modal
             /\ signal' = "ignored" ]_vars

C4_Witness ==
    /\ signal = "ignored"
    /\ gameState.isGameActive
    /\ gameState.guessedLetters # {}
    /\ gameState.troops < MAX_TROOPS

\* C5: guessLetter while no round is active changes nothing: no letter is
\* added, no troop is lost, neither streak changes and nothing is signalled.
C5_InactiveGuessIsNoOp ==
    [][ \A l \in Keys :
          (~gameState.isGameActive /\ GuessLetter(l))
          => /\ gameState' = gameState
             /\ localStorage' = localStorage
             /\ modal' = modal
             /\ signal' = "ignored" ]_vars

C5_Witness ==
    /\ signal = "ignored"
    /\ ~gameState.isGameActive
    /\ modal.visible
    /\ modal.title = LossTitle

\* C6: currentStreak is 0 right after every incorrect accepted guess.
C6_StreakZeroAfterIncorrect ==
    [][IncorrectGuess => gameState'.currentStreak = 0]_vars

\* C7: bestStreak never decreases in any step (the global-victory reset, which
\* loads the stored value again, included), and bestStreak >= currentStreak.
C7_BestStreakMonotone ==
    /\ [](gameState.bestStreak >= gameState.currentStreak)
    /\ [][gameState'.bestStreak >= gameState.bestStreak]_vars

AllAvailable == [c \in ContinentSet |-> Str("available")]

C7_Witness ==
    /\ localStorage.continentStatus = JsonItem(AllAvailable)
    /\ gameState.continentStatus = AllAvailable
    /\ gameState.bestStreak >= 2

\* C8: the stored best streak is the in-memory one in every state, and a step
\* that raises bestStreak writes the new value in the same step.
C8_StoredBestStreak ==
    /\ [](parseIntOr0(localStorage.bestStreak) = gameState.bestStreak)
    /\ [][ gameState'.bestStreak > gameState.bestStreak
           => localStorage'.bestStreak = IntItem(gameState'.bestStreak) ]_vars

C8_Witness ==
    /\ signal = WinTitle
    /\ gameState.bestStreak >= 2
    /\ gameState.currentStreak = gameState.bestStreak
    /\ localStorage.bestStreak = IntItem(gameState.bestStreak)

\* C9: a step that runs newRound either starts a round on a record of the
\* list that was not dominated (targetWord its cleaned name, no guessed letter,
\* 3 troops, active), or, when every record is dominated, starts no round and
\* signals the continent's completion.
Undominated(gs) == {i \in 1..Len(gs.countries) : ~gs.countries[i].isDominated}

RoundFields(gs) == <<gs.currentCountry, gs.targetWord, gs.guessedLetters, gs.troops,
                     gs.isGameActive>>

NewRoundSignals == {"roundStarted", ContinentTitle, GlobalTitle}

\* the modal button of a won or lost round runs newRound
AcknowledgesRound ==
    /\ modal.visible
    /\ modal.action = "newRound"
    /\ \E rnd \in Random : ModalButton(rnd)

C9_NewRound ==
    [][ /\ AcknowledgesRound => signal' \in NewRoundSignals
        /\ signal' \in NewRoundSignals =>
             IF Undominated(gameState') # {}
             THEN /\ signal' = "roundStarted"
                  /\ \E i \in Undominated(gameState') :
                        /\ gameState'.currentCountry.key = gameState'.countries[i].key
                        /\ gameState'.currentCountry.name = gameState'.countries[i].name
                        /\ gameState'.targetWord = cleanWord(gameState'.countries[i].name)
                  /\ gameState'.guessedLetters = {}
                  /\ gameState'.troops = MAX_TROOPS
                  /\ gameState'.isGameActive
             ELSE /\ signal' \in {ContinentTitle, GlobalTitle}
                  /\ RoundFields(gameState') = RoundFields(gameState)
                  /\ gameState'.continentStatus[gameState'.currentContinent] = Str("dominated")
      ]_vars

C9_Witness ==
    /\ signal = "roundStarted"
    /\ Undominated(gameState) # {}
    /\ \E i \in 1..Len(gameState.countries) : gameState.countries[i].isDominated
    /\ gameState.isGameActive
    /\ gameState.troops = MAX_TROOPS

\* C10: every country win ends the round, adds 1 to currentStreak, marks the
\* guessed country's record in the list, appends its name to the dominated
\* list, and sets and stores the continent's status as in-progress with
\* exactly the dominated names.
C10_WinEffects ==
    [][ signal' = WinTitle
        => /\ ~gameState'.isGameActive
           /\ gameState'.currentStreak = gameState.currentStreak + 1
           /\ \E i \in 1..Len(gameState'.countries) :
                 /\ gameState'.countries[i].key = gameState.currentCountry.key
                 /\ gameState'.countries[i].isDominated
           /\ gameState'.dominated = Append(gameState.dominated, gameState.currentCountry.name)
           /\ gameState'.continentStatus[gameState.currentContinent]
                 = Obj("in-progress", gameState'.dominated)
           /\ localStorage'.continentStatus = JsonItem(gameState'.continentStatus) ]_vars

\* ------------------------------------------------------------------------
\* Continent completion, reload, failed loads
\* ------------------------------------------------------------------------
CompletionSignals == {ContinentTitle, GlobalTitle}

\* gameState after loadGameStateFromStorage alone on a new page, and after the
\* whole session start, both on what is stored now
Loaded == loadGameStateFromStorage([Sys EXCEPT !.gs = InitialGameState]).gs

Reloaded == Boot(localStorage).gs

C12_DominatedIsTerminal ==
    [][ \A c \in ContinentSet :
          (/\ gameState.continentStatus[c] = Str("dominated")
           /\ gameState'.continentStatus[c] # Str("dominated"))
          => /\ modal.visible
             /\ modal.action = "resetCampaign"
             /\ gameState'.continentStatus = AllAvailable ]_vars

\* C13: the step that makes the fifth continent 'dominated' signals the global
\* victory (and the completion of a continent signals it only then); the
\* acknowledgment of the global victory leaves every continent 'available' in
\* memory and in the store, with bestStreak as it was, in memory and stored.
AllDominated(gs) == \A c \in ContinentSet : gs.continentStatus[c] = Str("dominated")

AcknowledgesGlobalVictory ==
    /\ modal.visible
    /\ modal.action = "resetCampaign"
    /\ \E rnd \in Random : ModalButton(rnd)

C13_GlobalVictory ==
    [][ /\ (AllDominated(gameState') /\ ~AllDominated(gameState))
           => signal' = GlobalTitle
        /\ signal' \in CompletionSignals
           => (signal' = GlobalTitle <=> AllDominated(gameState'))
        /\ signal' = GlobalTitle
           => /\ modal'.visible
              /\ modal'.action = "resetCampaign"
        /\ AcknowledgesGlobalVictory
           => /\ gameState'.continentStatus = AllAvailable
              /\ localStorage'.continentStatus = JsonItem(AllAvailable)
              /\ gameState'.bestStreak = gameState.bestStreak
              /\ localStorage'.bestStreak = IntItem(gameState.bestStreak) ]_vars

C13_Witness ==
    /\ gameState.currentView = "menu"
    /\ ~modal.visible
    /\ selections = MaxSelections
    /\ gameState.continentStatus = AllAvailable
    /\ localStorage.continentStatus = JsonItem(AllAvailable)
    /\ gameState.bestStreak >= 1
    /\ localStorage.bestStreak = IntItem(gameState.bestStreak)

\* a step in which a request for continent c is answered, and answered well
LoadAnswered(c) == pending'[c] < pending[c]

LoadSucceeds(c) == LoadAnswered(c) /\ signal' # "loadError"

\* the names a status value carries: those of an in-progress object
StatusNames(v) == IF v.kind = "object" THEN v.countries ELSE <<>>

Names(list) == {list[i] : i \in 1..Len(list)}

\* C14: after a successful loadContinent(c) a record of the list is dominated
\* iff its name is among the names of c's in-progress status, and the
\* dominated list holds exactly the fetched names that are among them, each
\* once; names of the status that were not fetched are in neither.
C14_LoadMergesProgress ==
    [][ \A c \in ContinentSet :
          LoadSucceeds(c) =>
            LET names  == Names(StatusNames(gameState.continentStatus[c]))
                after  == gameState'.countries
                listed == gameState'.dominated
            IN  /\ gameState'.currentContinent = c
                /\ \A i \in 1..Len(after) :
                      after[i].isDominated <=> after[i].name \in names
                /\ Names(listed) = {after[i].name : i \in 1..Len(after)} \cap names
                /\ \A i, j \in 1..Len(listed) : i # j => listed[i] # listed[j] ]_vars

C14_Witness ==
    /\ signal = "roundStarted"
    /\ pending = NoPending
    /\ selections = MaxSelections
    /\ gameState.continentStatus[gameState.currentContinent].kind = "object"
    /\ Len(gameState.countries) = 2
    /\ Len(gameState.dominated) = 1
    /\ gameState.guessedLetters = {}
    /\ Names(gameState.dominated)
          = Names(StatusNames(gameState.continentStatus[gameState.currentContinent]))

\* the names of the in-progress object stored for continent c
StoredNames(c) ==
    IF localStorage.continentStatus.kind = "json"
    THEN StatusNames(localStorage.continentStatus.map[c])
    ELSE <<>>

\* C15: a country whose name is stored in the in-progress object of continent
\* c is marked dominated by every successful loadContinent(c), the first one
\* after a session start included, and is not the country of the round that
\* the load starts.
C15_ProgressSurvivesReload ==
    [][ \A c \in ContinentSet :
          LoadSucceeds(c) =>
            \A i \in 1..Len(gameState'.countries) :
               gameState'.countries[i].name \in Names(StoredNames(c))
               => /\ gameState'.countries[i].isDominated
                  /\ signal' = "roundStarted"
                     => gameState'.currentCountry.key # gameState'.countries[i].key ]_vars

\* C16: a load that fails (HTTP error, or no record passes the filter) starts
\* no round and leaves countries, currentContinent, the dominated list,
\* continentStatus, both streaks and the stored data as they were.
C16_FailedLoadKeepsState ==
    [][ signal' = "loadError"
        => /\ RoundFields(gameState') = RoundFields(gameState)
           /\ gameState'.countries = gameState.countries
           /\ gameState'.currentContinent = gameState.currentContinent
           /\ gameState'.dominated = gameState.dominated
           /\ gameState'.continentStatus = gameState.continentStatus
           /\ gameState'.currentStreak = gameState.currentStreak
           /\ gameState'.bestStreak = gameState.bestStreak
           /\ localStorage' = localStorage ]_vars

\* ------------------------------------------------------------------------
\* Session start on arbitrary stored content
\* ------------------------------------------------------------------------
\* what JSON.parse can yield for a continent key: nothing, null, a known or an
\* unknown string, a number, an in-progress object, objects with no or with an
\* unknown status
StoredValues ==
    { Undefined, JsonNull, Str("available"), Str("in-progress"), Str("dominated"),
      Str("conquered"), Num("7"), Obj("in-progress", <<Ab>>), Obj("", <<>>),
      Obj("conquered", <<>>) }

StoredMaps ==
    { m \in [ContinentSet -> StoredValues] :
        Cardinality({c \in ContinentSet : m[c] # Undefined}) <= MaxStoredKeys }

\* unparseable text and JSON null both end in the catch block: CorruptItem
StoredContents ==
    { [bestStreak |-> b, continentStatus |-> st] :
        b \in {NoItem, TextItem, IntItem(1)},
        st \in {NoStatusItem, CorruptItem} \cup {JsonItem(m) : m \in StoredMaps} }

InitStart ==
    \E storage \in StoredContents :
        /\ gameState = InitialGameState
        /\ aliased = FALSE
        /\ localStorage = storage
        /\ modal = NoModal
        /\ cards = {}
        /\ errorTimers = 0
        /\ signal = "none"
        /\ pending = NoPending
        /\ selections = 0
        /\ messageArea = NoMessage
        /\ messageTimers = NoMessageTimers

\* window.onload runs initializeAppUI on the page as constructed
WindowOnload ==
    /\ gameState = InitialGameState
    /\ Commit(initializeAppUI(Sys))
    /\ UNCHANGED <<pending, selections, messageArea, messageTimers>>

NextStart == WindowOnload

SpecStart == InitStart /\ [][NextStart]_vars

KnownStatuses == {Str("available"), Str("in-progress"), Str("dominated")}

\* C17: after the session start, whatever was stored, each of the five
\* continents has the status available, in-progress or dominated, and a
\* continent whose stored entry is none of these three (as a string or as
\* the status of an object) is available.
C17_StartNormalizesStatus ==
    gameState # InitialGameState
    => \A c \in ContinentSet :
          /\ gameState.continentStatus[c] \in KnownStatuses
          /\ (\/ localStorage.continentStatus.kind # "json"
              \/ Str(localStorage.continentStatus.map[c].val) \notin KnownStatuses)
             => gameState.continentStatus[c] = Str("available")

\* ------------------------------------------------------------------------
\* Outstanding requests, streak
\* ------------------------------------------------------------------------
RECURSIVE OutstandingUpTo(_)
OutstandingUpTo(i) == IF i = 0 THEN 0 ELSE pending[CONTINENTS[i]] + OutstandingUpTo(i - 1)

\* number of requests sent and not yet answered
Outstanding == OutstandingUpTo(Len(CONTINENTS))

\* the round and game state the load works on
CriticalFields(gs) == <<gs.countries, gs.currentContinent, gs.targetWord, gs.guessedLetters,
                        gs.troops, gs.isGameActive, gs.currentStreak, gs.bestStreak>>

\* C18: at most one request is outstanding at any time, and while one is
\* outstanding every step other than its answer leaves countries,
\* currentContinent, targetWord, guessedLetters, troops, isGameActive and both
\* streaks unchanged and sends no further request.
C18_LoadIsCriticalSection ==
    /\ [](Outstanding <= 1)
    /\ [][ (Outstanding > 0 /\ \A c \in ContinentSet : ~LoadAnswered(c))
           => /\ CriticalFields(gameState') = CriticalFields(gameState)
              /\ pending' = pending ]_vars

\* C19: currentStreak changes only in an incorrect accepted guess, to 0, and
\* in a country win, by +1.
C19_StreakChangesOnlyByGuessOrWin ==
    [][ gameState'.currentStreak # gameState.currentStreak
        => \/ IncorrectGuess /\ gameState'.currentStreak = 0
           \/ /\ signal' = WinTitle
              /\ gameState'.currentStreak = gameState.currentStreak + 1 ]_vars

\* ------------------------------------------------------------------------
\* cleanWord on arbitrary raw names: a round on a list of one fetched record
\* ------------------------------------------------------------------------
\* characters of a raw name: letters of both cases, an accented letter, a
\* space, a tab, parentheses and a digit
NameChars == {"a", "B", "a_acute", " ", "\t", "(", ")", "4"}

RawNames == UNION {[1..n -> NameChars] : n \in 0..MaxNameLen}

InitClean ==
    \E name \in RawNames :
        /\ gameState = [InitialGameState EXCEPT
                          !.continentStatus = AllAvailable,
                          !.currentView = "game",
                          !.currentContinent = "Africa",
                          !.countries = toCountries(<<Raw(name, "f.svg", 200000, 1)>>)]
        /\ aliased = FALSE
        /\ localStorage = [bestStreak |-> NoItem, continentStatus |-> NoStatusItem]
        /\ modal = NoModal
        /\ cards = ContinentSet
        /\ errorTimers = 0
        /\ signal = "none"
        /\ pending = NoPending
        /\ selections = 1
        /\ messageArea = NoMessage
        /\ messageTimers = NoMessageTimers

\* newRound on the loaded list: targetWord = cleanWord(country.name)
StartRound ==
    /\ ~gameState.isGameActive
    /\ gameState.countries # <<>>
    /\ \E rnd \in Random : Commit(newRound(Sys, rnd))
    /\ UNCHANGED <<pending, selections, messageArea, messageTimers>>

NextClean == StartRound

SpecClean == InitClean /\ [][NextClean]_vars

\* only A-Z and single spaces, no space at either end
WellFormedWord(w) ==
    /\ \A i \in 1..Len(w) : w[i] \in AllLetters \cup {" "}
    /\ \A i \in 1..(Len(w) - 1) : ~(w[i] \in WhiteSpace /\ w[i + 1] \in WhiteSpace)
    /\ w # <<>> => (w[1] \notin WhiteSpace /\ w[Len(w)] \notin WhiteSpace)

\* C20: cleanWord of every raw country name, and so the targetWord of every
\* round, holds only the letters A-Z and single spaces and neither starts nor
\* ends with a space.
C20_TargetWordForm ==
    /\ WellFormedWord(gameState.targetWord)
    /\ gameState.isGameActive
       => gameState.targetWord = cleanWord(gameState.currentCountry.name)

\* ------------------------------------------------------------------------
\* Late answers, messages, rounds
\* ------------------------------------------------------------------------
\* C21: a response that replaces countries and currentContinent and starts a
\* round is applied only while the session is still in the game view waiting
\* for it.
C21_ResponseAppliedOnlyIfRelevant ==
    [][ \A c \in ContinentSet :
          LoadSucceeds(c) => gameState.currentView = "game" ]_vars

\* ------------------------------------------------------------------------
\* The message area: showMessage and its clearing timers, on the rounds of
\* one loaded continent
\* ------------------------------------------------------------------------
Msg == [area |-> messageArea, timers |-> messageTimers]

CommitMessage(m) ==
    /\ messageArea' = m.area
    /\ messageTimers' = m.timers

\* sets the text and schedules the timer of this call
showMessage(m, text) ==
    LET k == m.timers.calls + 1 IN
    [area   |-> [text |-> text, call |-> k],
     timers |-> [queue |-> Append(m.timers.queue, k), calls |-> k]]

\* the timer callback: clears the area if a round is active
clearMessage(m, isGameActive) ==
    LET m1 == [m EXCEPT !.timers.queue = Tail(@)] IN
    IF isGameActive THEN [m1 EXCEPT !.area = NoMessage] ELSE m1

\* a session that has loaded Africa: newRound has shown its message
InitMessage ==
    \E rnd \in Random :
        LET s == loadContinent(
                    showView(Boot([bestStreak |-> NoItem, continentStatus |-> NoStatusItem]),
                             "game"),
                    "Africa", Ok(AfricaData), rnd)
        IN  /\ gameState = s.gs
            /\ aliased = s.aliased
            /\ localStorage = s.ls
            /\ modal = s.modal
            /\ cards = ContinentSet
            /\ errorTimers = s.timers
            /\ signal = s.signal
            /\ pending = NoPending
            /\ selections = 1
            /\ messageArea = showMessage([area |-> NoMessage, timers |-> NoMessageTimers],
                                         "Dominacion").area
            /\ messageTimers = showMessage([area |-> NoMessage, timers |-> NoMessageTimers],
                                           "Dominacion").timers

\* guessLetter with its message: none at the two early returns
MessageGuess(letter) ==
    /\ gameState.currentView = "game"
    /\ messageTimers.calls < MaxMessages
    /\ \E s \in {guessLetter(Sys, letter)} :
          /\ Commit(s)
          /\ CommitMessage(
                IF s.signal = "ignored" THEN Msg
                ELSE IF \E i \in 1..Len(gameState.targetWord) :
                           gameState.targetWord[i] = toUpperCase(letter)
                THEN showMessage(Msg, "Correcto")
                ELSE showMessage(Msg, "Incorrecto"))
    /\ UNCHANGED <<pending, selections>>

\* the modal button; a newRound that starts a round shows its message
MessageAcknowledge(rnd) ==
    /\ modal.visible
    /\ messageTimers.calls < MaxMessages
    /\ \E s \in {modalAction(Sys, rnd)} :
          /\ Commit(s)
          /\ CommitMessage(IF s.signal = "roundStarted"
                           THEN showMessage(Msg, "Dominacion") ELSE Msg)
    /\ UNCHANGED <<pending, selections>>

\* timers of one delay run in the order they were set
MessageTimerFires ==
    /\ messageTimers.queue # <<>>
    /\ CommitMessage(clearMessage(Msg, gameState.isGameActive))
    /\ UNCHANGED <<gameState, aliased, localStorage, modal, cards, errorTimers, signal,
                   pending, selections>>

NextMessage ==
    \/ \E l \in Keys : MessageGuess(l)
    \/ \E rnd \in Random : MessageAcknowledge(rnd)
    \/ MessageTimerFires

SpecMessage == InitMessage /\ [][NextMessage]_vars

\* C22: a timer of showMessage that clears the message area clears the
\* message of the call that set the timer, never a message set later.
C22_TimerClearsOwnMessage ==
    [][ (/\ messageTimers.queue # <<>>
         /\ messageTimers'.queue = Tail(messageTimers.queue)
         /\ messageArea' # messageArea)
        => messageArea.call = Head(messageTimers.queue) ]_vars

\* C23: the guess that signals a win is a correct guess: its letter is in the
\* word, it costs no troop and it does not reset currentStreak before the
\* win increments it.
C23_WinIsCorrectGuess ==
    [][ signal' = WinTitle
        => /\ ~IncorrectGuess
           /\ gameState'.troops = gameState.troops
           /\ gameState'.currentStreak = gameState.currentStreak + 1 ]_vars

\* the player keeps guessing letters that are not guessed yet while a round is
\* active and the keyboard can be reached
NewGuess ==
    \E l \in Keys :
        /\ gameState.isGameActive
        /\ toUpperCase(l) \notin gameState.guessedLetters
        /\ GuessLetter(l)

SpecFair == Spec /\ WF_vars(NewGuess)

\* C24: a round takes at most d + 2 accepted guesses, d the number of distinct
\* letters of targetWord, a round that is over stays over until newRound
\* starts one, and with a player who keeps guessing new letters every active
\* round comes to its end.
C24_RoundTerminates ==
    /\ [](Cardinality(gameState.guessedLetters)
            <= Cardinality(wordLetters(gameState.targetWord)) + 2)
    /\ [][ (~gameState.isGameActive /\ gameState'.isGameActive)
           => signal' = "roundStarted" ]_vars
    /\ (gameState.isGameActive ~> ~gameState.isGameActive)

\* ------------------------------------------------------------------------
\* The remote-auth variant (src/unnamed/part_000): no stored state, the
\* statuses are strings only.  localStorage is not used.
\* ------------------------------------------------------------------------
renderStreakRemote(s) ==
    IF s.gs.currentStreak > s.gs.bestStreak
    THEN [s EXCEPT !.gs.bestStreak = s.gs.currentStreak]
    ELSE s

\* fills the statuses that are missing, renders the cards, shows the menu
initializeAppUIRemote(s) ==
    LET s1 == [s EXCEPT !.gs.continentStatus =
                  [c \in ContinentSet |-> IF Truthy(@[c]) THEN @[c] ELSE Str("available")]]
    IN  showView(renderContinentSelect(s1), "menu")

handleContinentWinRemote(s) ==
    LET s1 == [s EXCEPT !.gs.continentStatus[s.gs.currentContinent] = Str("dominated")]
        allDominated == \A c \in ContinentSet : s1.gs.continentStatus[c] = Str("dominated")
    IN  IF allDominated
        THEN handleModal(s1, "VICTORIA GLOBAL", NoBody, "resetCampaign")
        ELSE handleModal(s1, "Continente Conquistado",
                         [NoBody EXCEPT !.continent = s.gs.currentContinent], "backToMap")

newRoundRemote(s, rnd) ==
    LET avail == availableCountries(s.gs.countries) IN
    IF Len(avail) = 0 THEN handleContinentWinRemote(s)
    ELSE LET c  == s.gs.countries[avail[randomIndex(rnd, Len(avail))]]
             s1 == [s EXCEPT !.gs.currentCountry = [name |-> c.name, flag |-> c.flag, key |-> c.key],
                             !.gs.targetWord = cleanWord(c.name),
                             !.gs.guessedLetters = {},
                             !.gs.troops = MAX_TROOPS,
                             !.gs.isGameActive = TRUE,
                             !.signal = "roundStarted"]
         IN  renderStreakRemote(s1)

checkGameStatusRemote(s) ==
    IF ~s.gs.isGameActive THEN s
    ELSE IF wordLetters(s.gs.targetWord) \subseteq s.gs.guessedLetters
    THEN LET s1 == renderStreakRemote([s EXCEPT !.gs.isGameActive = FALSE,
                                                !.gs.currentStreak = @ + 1])
             i  == findByKey(s1.gs.countries, s1.gs.currentCountry.key)
             s2 == IF i = 0 THEN s1
                   ELSE [s1 EXCEPT !.gs.countries[i].isDominated = TRUE,
                                   !.gs.dominated = Append(@, s1.gs.countries[i].name)]
         IN  handleModal(s2, "Pais Dominado",
                         [NoBody EXCEPT !.country = s2.gs.currentCountry.name,
                                        !.streak = s2.gs.currentStreak],
                         "newRound")
    ELSE IF troopsDepleted(s.gs.troops)
    THEN handleModal([s EXCEPT !.gs.isGameActive = FALSE], "Derrota de Tropas",
                     [NoBody EXCEPT !.country = s.gs.currentCountry.name], "newRound")
    ELSE s

guessLetterRemote(s, letter) ==
    IF ~s.gs.isGameActive THEN [s EXCEPT !.signal = "ignored"]
    ELSE LET upperLetter == toUpperCase(letter) IN
         IF upperLetter \in s.gs.guessedLetters THEN [s EXCEPT !.signal = "ignored"]
         ELSE LET s1 == [s EXCEPT !.gs.guessedLetters = @ \cup {upperLetter}]
                  s2 == IF \E i \in 1..Len(s1.gs.targetWord) : s1.gs.targetWord[i] = upperLetter
                        THEN s1
                        ELSE renderStreakRemote([s1 EXCEPT !.gs.troops = @ - 1,
                                                           !.gs.currentStreak = 0])
              IN  checkGameStatusRemote(s2)

loadContinentRemote(s, continent, response, rnd) ==
    IF ~response.ok THEN loadFailed(s)
    ELSE LET s1 == [s EXCEPT !.gs.countries = toCountries(response.data)] IN
         IF Len(s1.gs.countries) = 0 THEN loadFailed(s1)
         ELSE newRoundRemote([s1 EXCEPT !.gs.currentContinent = continent,
                                        !.gs.dominated = <<>>], rnd)

modalActionRemote(s, rnd) ==
    LET hidden == [s EXCEPT !.modal = NoModal] IN
    CASE s.modal.action = "newRound" -> newRoundRemote(hidden, rnd)
      [] s.modal.action = "resetCampaign" -> showView(initializeAppUIRemote(hidden), "menu")
      [] OTHER -> showView(renderContinentSelect(hidden), "continentSelect")

\* every region answers with one playable country
RemoteData == << Raw(Ab, "ab.svg", 200000, 1) >>

\* the authentication has settled and window.onload has run initializeAppUI
InitRemote ==
    LET s == initializeAppUIRemote(
                [gs |-> InitialGameState, aliased |-> FALSE,
                 ls |-> [bestStreak |-> NoItem, continentStatus |-> NoStatusItem],
                 modal |-> NoModal, cards |-> {}, timers |-> 0, signal |-> "none"])
    IN  /\ gameState = s.gs
        /\ aliased = s.aliased
        /\ localStorage = s.ls
        /\ modal = s.modal
        /\ cards = s.cards
        /\ errorTimers = s.timers
        /\ signal = s.signal
        /\ pending = NoPending
        /\ selections = 0
        /\ messageArea = NoMessage
        /\ messageTimers = NoMessageTimers

RemoteStartButton ==
    /\ Clickable("menu")
    /\ Commit(showView(Sys, "continentSelect"))
    /\ UNCHANGED <<pending, selections, messageArea, messageTimers>>

\* the player of SpecRemote waits for the answer of a request before the
\* next click
RemoteBackToMapButton ==
    /\ Clickable("game")
    /\ Outstanding = 0
    /\ Commit(showView(renderContinentSelect(
                [Sys EXCEPT !.gs.isGameActive = FALSE, !.gs.currentStreak = 0]),
              "continentSelect"))
    /\ UNCHANGED <<pending, selections, messageArea, messageTimers>>

RemoteStartGame(continent) ==
    /\ Clickable("continentSelect")
    /\ Outstanding = 0
    /\ continent \in cards
    /\ selections < MaxRemoteSelections
    /\ Commit(showView(Sys, "game"))
    /\ pending' = [pending EXCEPT ![continent] = @ + 1]
    /\ selections' = selections + 1
    /\ UNCHANGED <<messageArea, messageTimers>>

RemoteFetchAnswers(continent, response, rnd) ==
    /\ pending[continent] > 0
    /\ \E s \in {loadContinentRemote(Sys, continent, response, rnd)} : Commit(s)
    /\ pending' = [pending EXCEPT ![continent] = @ - 1]
    /\ UNCHANGED <<selections, messageArea, messageTimers>>

RemoteErrorTimerFires ==
    /\ errorTimers > 0
    /\ Commit(showView([Sys EXCEPT !.timers = @ - 1], "continentSelect"))
    /\ UNCHANGED <<pending, selections, messageArea, messageTimers>>

RemoteGuessLetter(letter) ==
    /\ gameState.currentView = "game"
    /\ \E s \in {guessLetterRemote(Sys, letter)} : Commit(s)
    /\ UNCHANGED <<pending, selections, messageArea, messageTimers>>

RemoteModalButton(rnd) ==
    /\ modal.visible
    /\ \E s \in {modalActionRemote(Sys, rnd)} : Commit(s)
    /\ UNCHANGED <<pending, selections, messageArea, messageTimers>>

NextRemote ==
    \/ RemoteStartButton
    \/ RemoteBackToMapButton
    \/ \E c \in ContinentSet : RemoteStartGame(c)
    \/ \E c \in ContinentSet : \E r \in {HttpError, Ok(RemoteData)} : \E rnd \in Random :
          RemoteFetchAnswers(c, r, rnd)
    \/ RemoteErrorTimerFires
    \/ \E l \in {"A", "B", "X"} : RemoteGuessLetter(l)
    \/ \E rnd \in Random : RemoteModalButton(rnd)

SpecRemote == InitRemote /\ [][NextRemote]_vars

\* C25: in the remote-auth variant the acknowledgment of the global victory
\* leaves every continent 'available' and at least one continent card that
\* can be selected.
C25_RemoteVictoryResets ==
    [][ (/\ modal.visible
         /\ modal.action = "resetCampaign"
         /\ \E rnd \in Random : RemoteModalButton(rnd))
        => /\ gameState'.continentStatus = AllAvailable
           /\ cards' # {} ]_vars

\* C26: while a round is active, currentCountry is a record of the countries
\* list (by key) that is not dominated, and targetWord is the cleaned name of
\* currentCountry.
C26_ActiveRoundCountry ==
    gameState.isGameActive
    => /\ \E i \in 1..Len(gameState.countries) :
             /\ gameState.countries[i].key = gameState.currentCountry.key
             /\ ~gameState.countries[i].isDominated
       /\ gameState.targetWord = cleanWord(gameState.currentCountry.name)

NoDuplicates(list) == \A i, j \in 1..Len(list) : i # j => list[i] # list[j]

\* C27: the countries list of an in-progress status holds no name twice, and
\* the answer of a load leaves the list of every in-progress status as it was
\* (or completes the continent).
C27_ProgressListOnlyWins ==
    /\ [](\A c \in ContinentSet :
            gameState.continentStatus[c].kind = "object"
            => NoDuplicates(gameState.continentStatus[c].countries))
    /\ [][ \A c, d \in ContinentSet :
             (LoadAnswered(c) /\ gameState.continentStatus[d].kind = "object")
             => \/ gameState'.continentStatus[d] = gameState.continentStatus[d]
                \/ gameState'.continentStatus[d] = Str("dominated") ]_vars

\* C28: a round is active only while the game view is shown.
C28_ActiveOnlyInGameView ==
    gameState.isGameActive => gameState.currentView = "game"

\* the fields of gameState that a lost round must leave alone
LossFrame(gs) == <<gs.currentView, gs.currentContinent, gs.countries, gs.dominated,
                   gs.continentStatus, gs.bestStreak, gs.currentCountry, gs.targetWord>>

\* C29: the step that signals the loss ends the round and, beyond the guess's
\* own effect on guessedLetters, troops and currentStreak, changes nothing:
\* the records, the dominated list, continentStatus, bestStreak and the stored
\* data stay as they were, the list a next newRound draws from is the same,
\* and a lost country that was undominated is still undominated in it.
C29_LossFrame ==
    [][ signal' = LossTitle
        => /\ ~gameState'.isGameActive
           /\ LossFrame(gameState') = LossFrame(gameState)
           /\ localStorage' = localStorage
           /\ aliased' = aliased
           /\ cards' = cards
           /\ availableCountries(gameState'.countries) = availableCountries(gameState.countries)
           /\ \A i \in Undominated(gameState) :
                 gameState.countries[i].key = gameState.currentCountry.key
                 => /\ i \in Undominated(gameState')
                    /\ gameState'.countries[i].key = gameState'.currentCountry.key ]_vars

C29_Witness ==
    /\ signal = LossTitle
    /\ modal.action = "newRound"
    /\ gameState.dominated # <<>>
    /\ gameState.continentStatus[gameState.currentContinent].kind = "object"
    /\ \E i \in Undominated(gameState) :
          gameState.countries[i].key = gameState.currentCountry.key
    /\ gameState.currentCountry.name \notin Names(gameState.dominated)
====
